---- MODULE Spec2Model ----
(***************************************************************************)
(* The indentation checker of j2lint (src/j2lint/linter/indenter/node.py). *)
(*                                                                         *)
(* Node.check_indentation is a recursive scan over the statements of one   *)
(* template.  Each activation of it is a frame of the variable frames;     *)
(* the module-level list jinja_node_stack is a variable of its own, and    *)
(* it is never cleared by the code, so it is carried from one pass to the  *)
(* next.  A pass is one call of check_indentation on a fresh root Node     *)
(* with a fresh result list.                                               *)
(*                                                                         *)
(* The command line entry point (src/j2lint/cli.py, run) is modelled next  *)
(* to it, with a specification of its own, SpecCli: what the linter        *)
(* reports for a file is an input of run.                                  *)
(***************************************************************************)
EXTENDS Integers, Sequences, FiniteSets, TLC

(***************************************************************************)
(* Bounds of the model.                                                    *)
(***************************************************************************)
\* longest input made of arbitrary tags
MaxLen == 2
\* longest correctly nested input
MaxNested == 4
\* passes run one after the other in one process
MaxPasses == 3
\* iterations of the scan loop counted while nothing changes
MaxSpin == 2
\* files get_files hands to run
MaxFiles == 2

(***************************************************************************)
(* Constants of node.py.                                                   *)
(***************************************************************************)
INDENT_SHIFT == 4
DEFAULT_WHITESPACES == 1

\* Python's None: the value of a call of check_indentation whose while loop
\* ends (the function has no return statement after the loop).
None == -1

(***************************************************************************)
(* Tag grammar (j2lint.linter.indenter.statement, j2lint.utils).           *)
(***************************************************************************)
JINJA_STATEMENT_TAG_NAMES ==
    << <<"for", "else", "endfor">>,
       <<"if", "elif", "else", "endif">>,
       <<"block", "endblock">> >>

JINJA_INTERMEDIATE_TAG_NAMES == {"set", "include"}

Families == {JINJA_STATEMENT_TAG_NAMES[i] : i \in DOMAIN JINJA_STATEMENT_TAG_NAMES}

BEGIN_TAGS == {fam[1] : fam \in Families}

END_TAGS == {fam[Len(fam)] : fam \in Families}

MIDDLE_TAGS == UNION {{fam[i] : i \in 2..(Len(fam) - 1)} : fam \in Families}

\* get_tuple(l, item): the first tuple of l that holds item (<<>> for None)
get_tuple(l, item) ==
    LET hits == {i \in DOMAIN l : \E j \in DOMAIN l[i] : l[i][j] = item}
    IN  IF hits = {} THEN <<>>
        ELSE l[CHOOSE i \in hits : \A k \in hits : i <= k]

InTuple(tag, tuple) == \E j \in DOMAIN tuple : tuple[j] = tag

(***************************************************************************)
(* State.                                                                  *)
(***************************************************************************)
VARIABLES
    lines,             \* the statements of the pass: [tag, begin]
    passNo,            \* the number of the pass, from 1
    jinja_node_stack,  \* the module-level list of open Begin nodes
    frames,            \* the activations of check_indentation, innermost last
    result,            \* the list the diagnostics are appended to
    outcome,           \* how the pass ended, or that it is running
    trace,             \* history: pushes, pops and frame returns of the pass
    checks,            \* history: the calls of check_indent_level of the pass
    spin,              \* history: loop iterations that changed nothing
    prev,              \* history: the pass before this one
    first              \* history: the first pass of the process

\* cli.py: one call of run
VARIABLES
    options,           \* the parsed command line: list, version, json, stdin, files
    stdin_isatty,      \* sys.stdin.isatty()
    run_pc,            \* where run stands
    file_or_dir_names, \* the names run looks for templates under
    stdin_filename,    \* the temporary file holding the template read from stdin
    tmp_exists,        \* whether that temporary file is on disk
    files,             \* the files to lint, as get_files found them
    file_no,           \* get_linting_issues: the place of its loop in files
    lint_errors,       \* get_linting_issues: file name -> errors
    lint_warnings,     \* get_linting_issues: file name -> warnings
    total_lint_errors, \* the first count the print function returned
    exit_code,         \* the value run returned, None until then
    linted             \* history: what each Runner.run reported, in order

nodeVars == <<lines, passNo, jinja_node_stack, frames, result, outcome,
              trace, checks, spin, prev, first>>

cliVars == <<options, stdin_isatty, run_pc, file_or_dir_names, stdin_filename,
             tmp_exists, files, file_no, lint_errors, lint_warnings,
             total_lint_errors, exit_code, linted>>

vars == <<nodeVars, cliVars>>

(***************************************************************************)
(* Nodes and frames.                                                       *)
(***************************************************************************)
\* The root Node() a caller makes for a pass; pass and idx stand for the
\* identity of the Python object.
RootNode(p) ==
    [pass |-> p, idx |-> None, tag |-> "", begin |-> 0, expected_indent |-> 0]

NoNode == RootNode(0)

\* create_node taking the indent of the frame's body for the statement
create_node_Shifted(p, line, line_no, indent_level) ==
    [pass |-> p, idx |-> line_no, tag |-> line.tag, begin |-> line.begin,
     expected_indent |-> indent_level + INDENT_SHIFT]

\* Node.create_node: statement.words[0] is the tag, statement.begin the
\* column, and statement.start_line_no is line_no + 1.
create_node(p, line, line_no, indent_level) ==
    [pass |-> p, idx |-> line_no, tag |-> line.tag, begin |-> line.begin,
     expected_indent |-> indent_level]

Frame(self, line_no, indent_level) ==
    [self |-> self, line_no |-> line_no, indent_level |-> indent_level,
     pc |-> "loop", node |-> NoNode]

\* Node.create_indentation_error
create_indentation_error(node, expected, actual) ==
    [line |-> node.idx + 1, tag |-> node.tag, expected |-> expected, actual |-> actual]

\* check_indent_level with DEFAULT_WHITESPACES forgotten
check_indent_level_NoWhitespaces(res, node) ==
    LET actual == node.begin
        expected == node.expected_indent
    IN  IF actual # expected
        THEN Append(res, create_indentation_error(node, expected, actual))
        ELSE res

\* Node.check_indent_level: the result list after the call
check_indent_level(res, node) ==
    LET actual == node.begin
        expected == node.expected_indent + DEFAULT_WHITESPACES
    IN  IF actual # expected
        THEN Append(res, create_indentation_error(node, expected, actual))
        ELSE res

\* the entry check_indent_level leaves in the history of verifications
CheckOf(node) ==
    [line |-> node.idx + 1, tag |-> node.tag,
     expected |-> node.expected_indent + DEFAULT_WHITESPACES]

\* jinja_node_stack[0] read where jinja_node_stack[-1] is meant
Bottom(stack) == stack[1]

\* jinja_node_stack[-1]
Top(stack) == stack[Len(stack)]

Pop(stack) == SubSeq(stack, 1, Len(stack) - 1)

EndOf(tag) == "end" \o tag

(***************************************************************************)
(* Inputs.                                                                 *)
(***************************************************************************)
Col(d) == d * INDENT_SHIFT + DEFAULT_WHITESPACES

\* the columns arbitrary statements start at: those expected of the
\* statements of the file and of the body of a block of the file
Columns == {Col(0), Col(1)}

\* tags of arbitrary inputs: both families with a Middle tag, an
\* Intermediate tag and a tag of no kind
TagNames == {"if", "elif", "else", "endif", "for", "endfor", "set", "foo"}

NestTags == TagNames \ {"foo"}

TagsOf(ls) == [i \in DOMAIN ls |-> ls[i].tag]

SeqsUpTo(S, n) == UNION {[1..k -> S] : k \in 0..n}

FamilyIndex(fam, tag) == CHOOSE j \in DOMAIN fam : fam[j] = tag

\* the family a Begin tag opens
FamilyOf(begin) == CHOOSE fam \in Families : fam[1] = begin

Last(s) == s[Len(s)]

AllButLast(s) == SubSeq(s, 1, Len(s) - 1)

\* The blocks of the document open after its first n statements, outermost
\* first: [tag, pos] with pos the place in the family of the block's last
\* Begin or Middle tag.  An End tag closes the innermost block.
RECURSIVE DocOpen(_, _)
DocOpen(tags, n) ==
    IF n = 0 THEN <<>>
    ELSE LET before == DocOpen(tags, n - 1)
             t == tags[n]
         IN  IF t \in BEGIN_TAGS
             THEN Append(before, [tag |-> t, pos |-> 1, line |-> n])
             ELSE IF t \in END_TAGS
                  THEN IF before = <<>> THEN before ELSE AllButLast(before)
             ELSE IF t \in MIDDLE_TAGS /\ before # <<>>
                     /\ InTuple(t, FamilyOf(Last(before).tag))
                  THEN [before EXCEPT ![Len(before)].pos =
                           FamilyIndex(FamilyOf(Last(before).tag), t)]
             ELSE before

\* statement n is legal where it stands in the document
DocLegal(tags, n) ==
    LET before == DocOpen(tags, n - 1)
        t == tags[n]
    IN  IF t \in BEGIN_TAGS \/ t \in JINJA_INTERMEDIATE_TAG_NAMES THEN TRUE
        ELSE IF before = <<>> THEN FALSE
        ELSE LET fam == FamilyOf(Last(before).tag)
             IN  IF t \in END_TAGS THEN t = fam[Len(fam)]
                 ELSE IF t \in MIDDLE_TAGS
                      THEN /\ InTuple(t, fam)
                           /\ \/ FamilyIndex(fam, t) > Last(before).pos
                              \/ t = "elif" /\ Last(before).pos = FamilyIndex(fam, t)
                 ELSE FALSE

\* every statement is legal where it stands (blocks may still be open)
NestedSoFar(tags) == \A n \in DOMAIN tags : DocLegal(tags, n)

WellNested(tags) == NestedSoFar(tags) /\ DocOpen(tags, Len(tags)) = <<>>

\* the number of blocks open around statement n; a Begin, Middle or End
\* statement counts at the depth of its own block
DocDepth(tags, n) ==
    LET d == Len(DocOpen(tags, n - 1))
    IN  IF tags[n] \in END_TAGS \cup MIDDLE_TAGS THEN (IF d = 0 THEN 0 ELSE d - 1) ELSE d

WellIndentedAt(ls, n) == ls[n].begin = Col(DocDepth(TagsOf(ls), n))

WellIndented(ls) == \A n \in DOMAIN ls : WellIndentedAt(ls, n)

\* the statements whose observed column is not the expected one
OffLines(ls) == {n \in DOMAIN ls : ~WellIndentedAt(ls, n)}

Stmt(t, b) == [tag |-> t, begin |-> b]

ArbitraryInputs == SeqsUpTo([tag : TagNames, begin : Columns], MaxLen)

NestedTagSeqs == {tags \in SeqsUpTo(NestTags, MaxNested) : WellNested(tags)}

\* tags at their expected columns, but for statement k, off by d
Indented(tags, k, d) ==
    [n \in DOMAIN tags |->
        Stmt(tags[n], Col(DocDepth(tags, n)) + (IF n = k THEN d ELSE 0))]

\* correctly nested inputs, correctly indented but for at most one statement
NestedInputs ==
    UNION {{Indented(tags, 0, 0)} \cup
           {Indented(tags, k, d) : k \in DOMAIN tags, d \in {-1, 1}} :
           tags \in NestedTagSeqs}

\* templates that end inside a block: one Begin statement and nothing else
HistoryInputs == {<<Stmt(t, Col(0))>> : t \in BEGIN_TAGS}

Inputs == ArbitraryInputs \cup NestedInputs \cup HistoryInputs

\* the same tags, one statement moved to another column
Reindented(ls) ==
    {[ls EXCEPT ![k].begin = c] : k \in DOMAIN ls, c \in Columns} \ {ls}

(***************************************************************************)
(* Outcomes.                                                               *)
(***************************************************************************)
RunningOutcome == [kind |-> "running", value |-> None, line |-> 0, msg |-> ""]

Returned(v) == [kind |-> "returned", value |-> v, line |-> 0, msg |-> ""]

\* an exception leaving check_indentation while statement line_no is examined
Raised(kind, line_no, msg) ==
    [kind |-> kind, value |-> None, line |-> line_no + 1, msg |-> msg]

NoPass == [valid |-> FALSE, lines |-> <<>>, result |-> <<>>, outcome |-> RunningOutcome,
           trace |-> <<>>, checks |-> <<>>, stack0 |-> <<>>]

Running == outcome.kind = "running"

Done == ~Running

TopFrame == frames[Len(frames)]

AtLoop == Running /\ frames # <<>> /\ TopFrame.pc = "loop"

AtLine == AtLoop /\ TopFrame.line_no # None /\ TopFrame.line_no < Len(lines)

\* the node line 53 makes for the statement the innermost frame examines
CurNode ==
    create_node(passNo, lines[TopFrame.line_no + 1], TopFrame.line_no,
                TopFrame.indent_level)

\* Python's None where a path is expected
NoPath == ""

\* run has not been called
NoRun ==
    /\ options = [list |-> FALSE, version |-> FALSE, json |-> FALSE,
                  stdin |-> FALSE, files |-> {}]
    /\ stdin_isatty = TRUE
    /\ run_pc = "idle"
    /\ file_or_dir_names = {}
    /\ stdin_filename = NoPath
    /\ tmp_exists = FALSE
    /\ files = <<>>
    /\ file_no = 0
    /\ lint_errors = <<>>
    /\ lint_warnings = <<>>
    /\ total_lint_errors = 0
    /\ exit_code = None
    /\ linted = <<>>

Init ==
    /\ NoRun
    /\ lines \in Inputs
    /\ passNo = 1
    /\ jinja_node_stack = <<>>
    /\ frames = <<Frame(RootNode(1), 0, 0)>>
    /\ result = <<>>
    /\ outcome = RunningOutcome
    /\ trace = <<>>
    /\ checks = <<>>
    /\ spin = 0
    /\ prev = NoPass
    /\ first = NoPass

(***************************************************************************)
(* Leaving a frame.                                                        *)
(***************************************************************************)
Event(ev, idx, value) == [ev |-> ev, idx |-> idx, value |-> value]

\* "return v" in the innermost frame: the caller's "line_no = ...
\* check_indentation(...)" (lines 57 and 90) takes the value; the return of
\* the root frame ends the pass.
FramesAfterReturn(fs, v) ==
    IF Len(fs) = 1 THEN <<>>
    ELSE [Pop(fs) EXCEPT ![Len(fs) - 1].line_no = v]

OutcomeAfterReturn(fs, v) == IF Len(fs) = 1 THEN Returned(v) ELSE RunningOutcome

Return(v) ==
    /\ frames' = FramesAfterReturn(frames, v)
    /\ outcome' = OutcomeAfterReturn(frames, v)
    /\ trace' = Append(trace, Event("return", TopFrame.self.idx, v))

\* an exception: no frame of node.py catches it, the module-level stack and
\* the caller's result list stay as they are
Raise(kind, msg) ==
    /\ frames' = <<>>
    /\ outcome' = Raised(kind, TopFrame.line_no, msg)
    /\ trace' = Append(trace, Event("raise", TopFrame.self.idx, TopFrame.line_no))

History == UNCHANGED <<lines, passNo, prev, first>> /\ UNCHANGED cliVars

(***************************************************************************)
(* The while loop of check_indentation (line 51).                          *)
(***************************************************************************)
\* line_no >= len(lines): the loop ends and the function returns None
LoopExit ==
    /\ AtLoop
    /\ TopFrame.line_no # None
    /\ TopFrame.line_no >= Len(lines)
    /\ Return(None)
    /\ UNCHANGED <<jinja_node_stack, result, checks, spin>>
    /\ History

\* line_no is None, the value of a callee whose loop ended: None < len(lines)
\* raises TypeError
LoopTypeError ==
    /\ AtLoop
    /\ TopFrame.line_no = None
    /\ Raise("TypeError", "'<' not supported")
    /\ UNCHANGED <<jinja_node_stack, result, checks, spin>>
    /\ History

(***************************************************************************)
(* Begin tags (lines 54-60).                                               *)
(***************************************************************************)
\* the body scanned at the indent level of its Begin statement
BodyIndentUnshifted(indent_level) == indent_level

\* line 57: the body of a block is scanned at indent_level + INDENT_SHIFT
BodyIndent(indent_level) == indent_level + INDENT_SHIFT

BeginTag ==
    /\ AtLine
    /\ CurNode.tag \in BEGIN_TAGS
    /\ jinja_node_stack' = Append(jinja_node_stack, CurNode)
    /\ frames' = Append([frames EXCEPT ![Len(frames)].pc = "begin",
                                       ![Len(frames)].node = CurNode],
                        Frame(CurNode, TopFrame.line_no + 1,
                              BodyIndent(TopFrame.indent_level)))
    /\ trace' = Append(trace, Event("push", CurNode.idx, None))
    /\ UNCHANGED <<result, outcome, checks, spin>>
    /\ History

\* lines 59-60, once the callee has returned: verify the Begin statement
AfterBegin ==
    /\ Running /\ frames # <<>> /\ TopFrame.pc = "begin"
    /\ result' = check_indent_level(result, TopFrame.node)
    /\ checks' = Append(checks, CheckOf(TopFrame.node))
    /\ frames' = [frames EXCEPT ![Len(frames)].pc = "loop",
                                ![Len(frames)].node = NoNode]
    /\ UNCHANGED <<jinja_node_stack, outcome, trace, spin>>
    /\ History

(***************************************************************************)
(* End tags (lines 61-76).                                                 *)
(***************************************************************************)
\* the End statement aligned with the column its Begin statement stands at
EndAlignedWithBegin(matchnode) == matchnode.begin - DEFAULT_WHITESPACES

\* line 69: the End node takes the expected indent of the block it closes
EndExpectedIndent(matchnode) == matchnode.expected_indent

AtEndTag == AtLine /\ CurNode.tag \notin BEGIN_TAGS /\ CurNode.tag \in END_TAGS

\* line 62 on an empty list: jinja_node_stack[-1] raises IndexError
EndTagEmptyStack ==
    /\ AtEndTag
    /\ jinja_node_stack = <<>>
    /\ Raise("IndexError", "list index out of range")
    /\ UNCHANGED <<jinja_node_stack, result, checks, spin>>
    /\ History

\* line 62 false: the branch has no else and the raise of line 75 is inside
\* the if, so the loop goes round with line_no unchanged
EndTagMismatch ==
    /\ AtEndTag
    /\ jinja_node_stack # <<>>
    /\ EndOf(Top(jinja_node_stack).tag) # CurNode.tag
    /\ spin < MaxSpin
    /\ spin' = spin + 1
    /\ UNCHANGED <<jinja_node_stack, frames, result, outcome, trace, checks>>
    /\ History

\* "return line_no + 1" (line 74) where line 65 has "return line_no"
UnconsumedIndexNext(line_no) == line_no + 1

\* line 65: the End line is handed back to the caller, not consumed
UnconsumedIndex(line_no) == line_no

\* lines 63-65: the block on top is not this frame's
EndTagNotSelf ==
    /\ AtEndTag
    /\ jinja_node_stack # <<>>
    /\ EndOf(Top(jinja_node_stack).tag) = CurNode.tag
    /\ Top(jinja_node_stack) # TopFrame.self
    /\ Return(UnconsumedIndex(TopFrame.line_no))
    /\ UNCHANGED <<jinja_node_stack, result, checks, spin>>
    /\ History

\* lines 66-76: pop the block, verify the End statement at the block's
\* expected indent and return the next index
EndTagClose ==
    /\ AtEndTag
    /\ jinja_node_stack # <<>>
    /\ EndOf(Top(jinja_node_stack).tag) = CurNode.tag
    /\ Top(jinja_node_stack) = TopFrame.self
    /\ LET matchnode == Top(jinja_node_stack)
           node == [CurNode EXCEPT !.expected_indent = EndExpectedIndent(matchnode)]
       IN  /\ jinja_node_stack' = Pop(jinja_node_stack)
           /\ IF matchnode = TopFrame.self
              THEN /\ result' = check_indent_level(result, node)
                   /\ checks' = Append(checks, CheckOf(node))
                   /\ frames' = FramesAfterReturn(frames, TopFrame.line_no + 1)
                   /\ outcome' = OutcomeAfterReturn(frames, TopFrame.line_no + 1)
                   /\ trace' = trace \o <<Event("pop", matchnode.idx, None),
                                          Event("return", TopFrame.self.idx,
                                                TopFrame.line_no + 1)>>
              ELSE /\ Raise("JinjaLinterError", "Tag is out of order")
                   /\ UNCHANGED <<result, checks>>
    /\ UNCHANGED spin
    /\ History

(***************************************************************************)
(* Middle tags (lines 77-96).                                              *)
(***************************************************************************)
AtMiddleTag ==
    /\ AtLine
    /\ CurNode.tag \notin BEGIN_TAGS \cup END_TAGS
    /\ CurNode.tag \in MIDDLE_TAGS

\* line 79 on an empty list: IndexError
MiddleTagEmptyStack ==
    /\ AtMiddleTag
    /\ jinja_node_stack = <<>>
    /\ Raise("IndexError", "list index out of range")
    /\ UNCHANGED <<jinja_node_stack, result, checks, spin>>
    /\ History

\* the family of the block on top of the stack
begin_tag_tuple == get_tuple(JINJA_STATEMENT_TAG_NAMES, Top(jinja_node_stack).tag)

\* line 80 without the family of the open block
MiddleAcceptedAny(tag, tuple) == tag \in MIDDLE_TAGS

\* line 80
MiddleAccepted(tag, tuple) == InTuple(tag, tuple)

\* lines 94-96
MiddleTagUnsupported ==
    /\ AtMiddleTag
    /\ jinja_node_stack # <<>>
    /\ ~MiddleAccepted(CurNode.tag, begin_tag_tuple)
    /\ Raise("JinjaLinterError", "Unsupported tag")
    /\ UNCHANGED <<jinja_node_stack, result, checks, spin>>
    /\ History

\* lines 81-83
MiddleTagNotSelf ==
    /\ AtMiddleTag
    /\ jinja_node_stack # <<>>
    /\ MiddleAccepted(CurNode.tag, begin_tag_tuple)
    /\ Top(jinja_node_stack) # TopFrame.self
    /\ Return(TopFrame.line_no)
    /\ UNCHANGED <<jinja_node_stack, result, checks, spin>>
    /\ History

\* lines 84-91: the Middle node takes the block's expected indent and scans
\* the body that follows it in a frame of its own
MiddleTagOpen ==
    /\ AtMiddleTag
    /\ jinja_node_stack # <<>>
    /\ MiddleAccepted(CurNode.tag, begin_tag_tuple)
    /\ Top(jinja_node_stack) = TopFrame.self
    /\ LET matchnode == Top(jinja_node_stack)
           node == [CurNode EXCEPT !.expected_indent = matchnode.expected_indent]
           indent_level == node.expected_indent
       IN  frames' = Append([frames EXCEPT ![Len(frames)].pc = "middle",
                                           ![Len(frames)].node = node,
                                           ![Len(frames)].indent_level = indent_level],
                            Frame(node, TopFrame.line_no + 1, indent_level + INDENT_SHIFT))
    /\ trace' = Append(trace, Event("call", CurNode.idx, TopFrame.line_no + 1))
    /\ UNCHANGED <<jinja_node_stack, result, outcome, checks, spin>>
    /\ History

\* lines 92-93, once the callee has returned: verify the Middle statement
\* and return the callee's value
AfterMiddle ==
    /\ Running /\ frames # <<>> /\ TopFrame.pc = "middle"
    /\ result' = check_indent_level(result, TopFrame.node)
    /\ checks' = Append(checks, CheckOf(TopFrame.node))
    /\ Return(TopFrame.line_no)
    /\ UNCHANGED <<jinja_node_stack, spin>>
    /\ History

(***************************************************************************)
(* Intermediate and unknown tags (lines 97-103).                           *)
(***************************************************************************)
AtOtherTag == AtLine /\ CurNode.tag \notin BEGIN_TAGS \cup END_TAGS \cup MIDDLE_TAGS

\* a plain "else:" where line 97 has the elif
IsIntermediateOrOther(tag) == TRUE

\* line 97: elif node.tag in JINJA_INTERMEDIATE_TAG_NAMES
IsIntermediate(tag) == tag \in JINJA_INTERMEDIATE_TAG_NAMES

IntermediateTag ==
    /\ AtOtherTag
    /\ IsIntermediate(CurNode.tag)
    /\ frames' = [frames EXCEPT ![Len(frames)].line_no = TopFrame.line_no + 1]
    /\ result' = check_indent_level(result, CurNode)
    /\ checks' = Append(checks, CheckOf(CurNode))
    /\ UNCHANGED <<jinja_node_stack, outcome, trace, spin>>
    /\ History

UnknownTag ==
    /\ AtOtherTag
    /\ ~IsIntermediate(CurNode.tag)
    /\ Raise("JinjaLinterError", "Unsupported tag")
    /\ UNCHANGED <<jinja_node_stack, result, checks, spin>>
    /\ History

(***************************************************************************)
(* The next pass of the same process: a fresh root Node and a fresh result *)
(* list; jinja_node_stack is the module's and stays as the pass left it.   *)
(***************************************************************************)
ThisPass ==
    [valid |-> TRUE, lines |-> lines, result |-> result, outcome |-> outcome,
     trace |-> trace, checks |-> checks,
     stack0 |-> IF prev.valid THEN prev.stack0 ELSE <<>>]

NextInputs ==
    IF passNo = 1
    THEN {lines} \cup Reindented(lines) \cup HistoryInputs
    ELSE {first.lines}

StartPass ==
    /\ Done
    /\ passNo < MaxPasses
    /\ \E ls \in NextInputs : lines' = ls
    /\ passNo' = passNo + 1
    /\ frames' = <<Frame(RootNode(passNo + 1), 0, 0)>>
    /\ result' = <<>>
    /\ outcome' = RunningOutcome
    /\ trace' = <<>>
    /\ checks' = <<>>
    /\ spin' = 0
    /\ prev' = ThisPass
    /\ first' = IF passNo = 1 THEN ThisPass ELSE first
    /\ UNCHANGED jinja_node_stack
    /\ UNCHANGED cliVars

Next ==
    \/ LoopExit
    \/ LoopTypeError
    \/ BeginTag
    \/ AfterBegin
    \/ EndTagEmptyStack
    \/ EndTagMismatch
    \/ EndTagNotSelf
    \/ EndTagClose
    \/ MiddleTagEmptyStack
    \/ MiddleTagUnsupported
    \/ MiddleTagNotSelf
    \/ MiddleTagOpen
    \/ AfterMiddle
    \/ IntermediateTag
    \/ UnknownTag
    \/ StartPass

Spec == Init /\ [][Next]_vars

(***************************************************************************)
(* cli.py: run.  The rules, the Runner and get_files are not part of       *)
(* cli.py: what they return is chosen here from bounded sets.              *)
(***************************************************************************)
\* the FILES arguments of the command line
FileArgs == {"a.j2", "templates"}

\* the files get_files can find
Templates == {"a.j2", "b.j2"}

\* tempfile.NamedTemporaryFile("w", suffix=".j2", delete=False).name
StdinTmp == "tmp.j2"

\* a LinterError of one file: its line number and rule id
Issue(line) == [line |-> line, rule_id |-> "S3"]

\* what Runner.run can return as errors, or as warnings: nothing, one
\* issue, or two issues not in the order of their lines
IssueLists == {<<>>, <<Issue(1)>>, <<Issue(2), Issue(1)>>}

\* sort_issues: by (filename, line_number, rule_id); the issues of one list
\* are of one file
sort_issues(issues) == SortSeq(issues, LAMBDA a, b : a.line < b.line)

\* the dictionary after "if file_name not in d: d[file_name] = []" and
\* "d[file_name].extend(issues)"
Extended(d, file_name, issues) ==
    [f \in DOMAIN d \cup {file_name} |->
        IF f = file_name
        THEN (IF f \in DOMAIN d THEN d[f] ELSE <<>>) \o issues
        ELSE d[f]]

\* sum(len(issues) for _, issues in d.items()) over the keys in S
RECURSIVE SumLen(_, _)
SumLen(d, S) ==
    IF S = {} THEN 0
    ELSE LET f == CHOOSE g \in S : TRUE
         IN  Len(d[f]) + SumLen(d, S \ {f})

\* the list print_json_output builds from d.values() over the keys in S
RECURSIVE Flattened(_, _)
Flattened(d, S) ==
    IF S = {} THEN <<>>
    ELSE LET f == CHOOSE g \in S : TRUE
         IN  d[f] \o Flattened(d, S \ {f})

\* print_json_output: (len(json_output["ERRORS"]), len(json_output["WARNINGS"]))
print_json_output(errors, warnings) ==
    <<Len(Flattened(errors, DOMAIN errors)), Len(Flattened(warnings, DOMAIN warnings))>>

\* print_string_output returning the two totals the other way round
print_string_output_Swapped(errors, warnings) ==
    <<SumLen(warnings, DOMAIN warnings), SumLen(errors, DOMAIN errors)>>

\* print_string_output: (total_lint_errors, total_lint_warnings)
print_string_output(errors, warnings) ==
    <<SumLen(errors, DOMAIN errors), SumLen(warnings, DOMAIN warnings)>>

\* the checker does not run while run does
NodeIdle ==
    /\ lines = <<>>
    /\ passNo = 1
    /\ jinja_node_stack = <<>>
    /\ frames = <<>>
    /\ result = <<>>
    /\ outcome = RunningOutcome
    /\ trace = <<>>
    /\ checks = <<>>
    /\ spin = 0
    /\ prev = NoPass
    /\ first = NoPass

InitCli ==
    /\ NodeIdle
    /\ options \in [list : BOOLEAN, version : BOOLEAN, json : BOOLEAN,
                     stdin : BOOLEAN, files : SUBSET FileArgs]
    /\ stdin_isatty \in BOOLEAN
    /\ run_pc = "start"
    /\ file_or_dir_names = {}
    /\ stdin_filename = NoPath
    /\ tmp_exists = FALSE
    /\ files = <<>>
    /\ file_no = 0
    /\ lint_errors = <<>>
    /\ lint_warnings = <<>>
    /\ total_lint_errors = 0
    /\ exit_code = None
    /\ linted = <<>>

\* "return code" of run
RunReturn(code) == exit_code' = code /\ run_pc' = "done"

\* lines 308-340: the names given, the template of stdin written to a
\* temporary file when stdin is not a terminal, the rules collected
ParseArgs ==
    /\ run_pc = "start"
    /\ LET piped == options.stdin /\ ~stdin_isatty
       IN  /\ stdin_filename' = IF piped THEN StdinTmp ELSE NoPath
           /\ tmp_exists' = piped
           /\ file_or_dir_names' = options.files \cup (IF piped THEN {StdinTmp} ELSE {})
    /\ run_pc' = "rules"
    /\ UNCHANGED <<options, stdin_isatty, files, file_no, lint_errors,
                   lint_warnings, total_lint_errors, exit_code, linted>>
    /\ UNCHANGED nodeVars

\* lines 343-348
ListRules ==
    /\ run_pc = "rules"
    /\ options.list
    /\ RunReturn(0)
    /\ UNCHANGED <<options, stdin_isatty, file_or_dir_names, stdin_filename,
                   tmp_exists, files, file_no, lint_errors, lint_warnings,
                   total_lint_errors, linted>>
    /\ UNCHANGED nodeVars

\* lines 351-353
PrintVersion ==
    /\ run_pc = "rules"
    /\ ~options.list
    /\ options.version
    /\ RunReturn(0)
    /\ UNCHANGED <<options, stdin_isatty, file_or_dir_names, stdin_filename,
                   tmp_exists, files, file_no, lint_errors, lint_warnings,
                   total_lint_errors, linted>>
    /\ UNCHANGED nodeVars

\* lines 356-358
PrintHelp ==
    /\ run_pc = "rules"
    /\ ~options.list
    /\ ~options.version
    /\ file_or_dir_names = {}
    /\ RunReturn(1)
    /\ UNCHANGED <<options, stdin_isatty, file_or_dir_names, stdin_filename,
                   tmp_exists, files, file_no, lint_errors, lint_warnings,
                   total_lint_errors, linted>>
    /\ UNCHANGED nodeVars

\* line 360 and the head of get_linting_issues (lines 162-163)
GetFiles ==
    /\ run_pc = "rules"
    /\ ~options.list
    /\ ~options.version
    /\ file_or_dir_names # {}
    /\ files' \in SeqsUpTo(Templates, MaxFiles)
    /\ file_no' = 1
    /\ lint_errors' = <<>>
    /\ lint_warnings' = <<>>
    /\ run_pc' = "lint"
    /\ UNCHANGED <<options, stdin_isatty, file_or_dir_names, stdin_filename,
                   tmp_exists, total_lint_errors, exit_code, linted>>
    /\ UNCHANGED nodeVars

\* lines 166-174: one iteration of the loop of get_linting_issues
LintFile ==
    /\ run_pc = "lint"
    /\ file_no <= Len(files)
    /\ \E j2_errors \in IssueLists, j2_warnings \in IssueLists :
           /\ lint_errors' = Extended(lint_errors, files[file_no], sort_issues(j2_errors))
           /\ lint_warnings' = Extended(lint_warnings, files[file_no], sort_issues(j2_warnings))
           /\ linted' = Append(linted, [file |-> files[file_no],
                                        errors |-> Len(j2_errors),
                                        warnings |-> Len(j2_warnings)])
    /\ file_no' = file_no + 1
    /\ UNCHANGED <<options, stdin_isatty, run_pc, file_or_dir_names,
                   stdin_filename, tmp_exists, files, total_lint_errors, exit_code>>
    /\ UNCHANGED nodeVars

\* lines 364-366
PrintJsonOutput ==
    /\ run_pc = "lint"
    /\ file_no > Len(files)
    /\ options.json
    /\ total_lint_errors' = print_json_output(lint_errors, lint_warnings)[1]
    /\ run_pc' = "printed"
    /\ UNCHANGED <<options, stdin_isatty, file_or_dir_names, stdin_filename,
                   tmp_exists, files, file_no, lint_errors, lint_warnings,
                   exit_code, linted>>
    /\ UNCHANGED nodeVars

\* lines 367-368
PrintStringOutput ==
    /\ run_pc = "lint"
    /\ file_no > Len(files)
    /\ ~options.json
    /\ total_lint_errors' = print_string_output(lint_errors, lint_warnings)[1]
    /\ run_pc' = "printed"
    /\ UNCHANGED <<options, stdin_isatty, file_or_dir_names, stdin_filename,
                   tmp_exists, files, file_no, lint_errors, lint_warnings,
                   exit_code, linted>>
    /\ UNCHANGED nodeVars

\* lines 370-374: the temporary file is removed, the exit code returned
RemoveAndReturn ==
    /\ run_pc = "printed"
    /\ tmp_exists' = IF stdin_filename # NoPath THEN FALSE ELSE tmp_exists
    /\ RunReturn(IF total_lint_errors # 0 THEN 2 ELSE 0)
    /\ UNCHANGED <<options, stdin_isatty, file_or_dir_names, stdin_filename,
                   files, file_no, lint_errors, lint_warnings,
                   total_lint_errors, linted>>
    /\ UNCHANGED nodeVars

NextCli ==
    \/ ParseArgs
    \/ ListRules
    \/ PrintVersion
    \/ PrintHelp
    \/ GetFiles
    \/ LintFile
    \/ PrintJsonOutput
    \/ PrintStringOutput
    \/ RemoveAndReturn

SpecCli == InitCli /\ [][NextCli]_vars

(***************************************************************************)
(* Properties.                                                             *)
(***************************************************************************)
ThisTags == TagsOf(lines)

NoError == outcome.kind \in {"running", "returned"}

IsPrefix(a, b) == Len(a) <= Len(b) /\ SubSeq(b, 1, Len(a)) = a

\* the diagnostics of statement n, in the order they were appended
DiagsAt(res, n) == SelectSeq(res, LAMBDA d : d.line = n)

\* C1: on a correctly nested input whose statements all stand at their
\* expected columns, no diagnostic is appended and the pass neither raises
\* nor stays on a statement, blocks with Middle tags and nested blocks
\* included.
C1_WellIndentedNoDiagnostic ==
    (WellNested(ThisTags) /\ WellIndented(lines))
        => (result = <<>> /\ NoError /\ spin = 0)

C1_Witness ==
    /\ outcome.kind = "returned"
    /\ WellNested(ThisTags) /\ WellIndented(lines)
    /\ \E n \in DOMAIN lines : ThisTags[n] \in MIDDLE_TAGS
    /\ \E n \in DOMAIN lines : DocDepth(ThisTags, n) = 1
    /\ Len(checks) >= 2

\* C2: on a correctly nested input with exactly one statement off its
\* expected column, by one, a finished pass has reported exactly one
\* diagnostic, and it is that statement's.
C2_SingleOffsetDetected ==
    (/\ Done
     /\ WellNested(ThisTags)
     /\ Cardinality(OffLines(lines)) = 1
     /\ \A n \in OffLines(lines) :
            lines[n].begin - Col(DocDepth(ThisTags, n)) \in {-1, 1})
        => (Len(result) = 1 /\ result[1].line \in OffLines(lines))

\* an End statement is examined whose tag is not "end" + the tag of the
\* node on top of the stack
MismatchedEnd ==
    /\ AtEndTag
    /\ jinja_node_stack # <<>>
    /\ EndOf(Top(jinja_node_stack).tag) # CurNode.tag

\* C3: examining an End statement that does not close the block on top of
\* the stack ends the pass with a JinjaLinterError for that statement.
C3_MismatchedCloserIsFatal ==
    [][MismatchedEnd =>
         (outcome'.kind = "JinjaLinterError" /\ outcome'.line = TopFrame.line_no + 1)]_vars

\* the input ends inside a block: every statement is legal where it stands
\* and a block is open after the last one
EndsInsideBlock(tags) == NestedSoFar(tags) /\ DocOpen(tags, Len(tags)) # <<>>

\* C4: a pass over an input that ends inside a block ends with a
\* JinjaLinterError that names the line of the innermost open block's Begin
\* statement.
C4_UnterminatedIsStructuralError ==
    (Done /\ EndsInsideBlock(ThisTags))
        => (/\ outcome.kind = "JinjaLinterError"
            /\ outcome.line = Last(DocOpen(ThisTags, Len(ThisTags))).line)

\* C5: every iteration of the scan loop advances the line index, calls,
\* returns or raises: none leaves the frames and the outcome as they were.
C5_EveryIterationProgresses ==
    [][AtLoop => (frames' # frames \/ outcome' # outcome)]_vars

\* C6: a finished pass on the input of the first pass of the process has the
\* outcome and the diagnostics of that first pass, whatever was checked in
\* between.
C6_OutcomeDependsOnlyOnInput ==
    (Done /\ first.valid /\ lines = first.lines)
        => (outcome = first.outcome /\ result = first.result)

\* C7: a pass on the input of the pass just before it ends as that pass
\* ended: the same diagnostics in the same order, the same return value or
\* the same exception, and it does not stay on a statement.
C7_SameInputTwiceInARow ==
    (prev.valid /\ lines = prev.lines)
        => (/\ spin = 0
            /\ Done => (result = prev.result /\ outcome = prev.outcome))

C7_Witness ==
    /\ Done /\ prev.valid /\ lines = prev.lines
    /\ Len(jinja_node_stack) >= 2
    /\ result # <<>>
    /\ \E n \in DOMAIN lines : ThisTags[n] \in MIDDLE_TAGS

\* C8: a Middle statement examined while a block is open is accepted when
\* its tag belongs to the family of the block on top of the stack (else in
\* for), and otherwise ends the pass with the JinjaLinterError
\* "Unsupported tag" (elif in for).
C8_MiddleTagFamily ==
    [][(AtMiddleTag /\ jinja_node_stack # <<>>) =>
         IF InTuple(CurNode.tag, FamilyOf(Last(jinja_node_stack).tag))
         THEN outcome'.kind \in {"running", "returned"}
         ELSE /\ outcome'.kind = "JinjaLinterError"
              /\ outcome'.msg = "Unsupported tag"
              /\ outcome'.line = TopFrame.line_no + 1]_vars

C8_Witness ==
    /\ outcome.kind = "JinjaLinterError"
    /\ outcome.msg = "Unsupported tag"
    /\ lines[outcome.line].tag = "elif"
    /\ jinja_node_stack # <<>>
    /\ Last(jinja_node_stack).tag = "for"
    /\ Last(jinja_node_stack).pass = passNo

\* C9: the line numbers of the diagnostics in result are strictly
\* increasing.
C9_DiagnosticsInDocumentOrder ==
    \A i \in 1..(Len(result) - 1) : result[i].line < result[i + 1].line

\* C10: a pass on the tags of the pass just before it, at whatever columns,
\* makes the same pushes, pops, calls and returns, ends with the same
\* return value or exception, and its diagnostics differ from the earlier
\* ones only at the statements whose column differs.
C10_IndentationNeverRedirects ==
    (prev.valid /\ ThisTags = TagsOf(prev.lines))
        => (/\ spin = 0
            /\ IsPrefix(trace, prev.trace)
            /\ Done =>
                 (/\ trace = prev.trace
                  /\ outcome = prev.outcome
                  /\ \A n \in DOMAIN lines :
                         lines[n].begin = prev.lines[n].begin
                             => DiagsAt(result, n) = DiagsAt(prev.result, n)))

C10_Witness ==
    /\ Done /\ prev.valid
    /\ ThisTags = TagsOf(prev.lines)
    /\ lines # prev.lines
    /\ result # <<>> /\ prev.result # <<>>
    /\ result # prev.result
    /\ Len(trace) >= 3

\* neither a file nor a directory was named and no template came on stdin
NothingGiven == options.files = {} /\ ~(options.stdin /\ ~stdin_isatty)

\* some Runner.run reported an error
ErrorCollected == \E i \in DOMAIN linted : linted[i].errors > 0

\* C11: when run has returned: after --list or --version it returned 0 and
\* no file was linted; otherwise it returned 1 if nothing was given to lint
\* (and linted nothing); otherwise 2 if an error was reported for one of
\* the linted files and 0 if none was, whatever the warnings.
C11_ExitCode ==
    run_pc = "done" =>
        IF options.list \/ options.version
        THEN exit_code = 0 /\ linted = <<>>
        ELSE IF NothingGiven
        THEN exit_code = 1 /\ linted = <<>>
        ELSE /\ exit_code = (IF ErrorCollected THEN 2 ELSE 0)
             /\ Len(linted) = Len(files)

C11_Witness ==
    /\ run_pc = "done"
    /\ exit_code = 0
    /\ ~options.list /\ ~options.version
    /\ Len(linted) >= 2
    /\ \E i \in DOMAIN linted : linted[i].warnings > 0
    /\ linted[1].file = linted[2].file

\* the line indexes of the blocks pushed and not popped by the first n
\* events of a trace, outermost first
RECURSIVE OpenAfter(_, _)
OpenAfter(tr, n) ==
    IF n = 0 THEN <<>>
    ELSE LET before == OpenAfter(tr, n - 1)
         IN  IF tr[n].ev = "push" THEN Append(before, tr[n].idx)
             ELSE IF tr[n].ev = "pop" THEN AllButLast(before)
             ELSE before

\* the frame that scans a block's body: the frame of the block's Begin
\* node, or the frame of a Middle node called from it
ScansBodyOf(node) ==
    \/ TopFrame.self = node
    \/ /\ TopFrame.self.tag \in MIDDLE_TAGS
       /\ Len(frames) >= 2
       /\ frames[Len(frames) - 1].self = node

\* C12: while a pass runs, the stack is, bottom to top, the Begin nodes this
\* pass has pushed and not popped; each of them is the node of a frame that
\* has not returned, and the frame at the scan loop scans the body of the
\* block on top.
C12_StackIsOpenBlocks ==
    Running =>
        (/\ [i \in DOMAIN jinja_node_stack |-> jinja_node_stack[i].idx]
                = OpenAfter(trace, Len(trace))
         /\ \A i \in DOMAIN jinja_node_stack :
                /\ jinja_node_stack[i].pass = passNo
                /\ \E f \in DOMAIN frames : frames[f].self = jinja_node_stack[i]
         /\ (AtLoop /\ jinja_node_stack # <<>>)
                => ScansBodyOf(Last(jinja_node_stack)))

\* C13: when a pass over a correctly nested input has returned, no node
\* pushed by this pass is left on the stack, blocks with Middle tags
\* included.
C13_NestedInputLeavesNoNode ==
    (outcome.kind = "returned" /\ WellNested(ThisTags))
        => \A i \in DOMAIN jinja_node_stack : jinja_node_stack[i].pass # passNo

\* statement n has been verified in this pass
Verified(n) == \E i \in DOMAIN checks : checks[i].line = n

\* the verifications of statement n in this pass
ChecksAt(n) == {i \in DOMAIN checks : checks[i].line = n}

\* C14: a pass that has returned has returned the number of lines, and
\* every statement was consumed by some frame.
C14_ReturnedPassSawEveryLine ==
    outcome.kind = "returned"
        => (/\ outcome.value = Len(lines)
            /\ \A n \in DOMAIN lines : Verified(n))

\* an End statement is examined in a frame whose node is not the node on
\* top of the stack
EndNotOnTop ==
    /\ AtEndTag
    /\ jinja_node_stack # <<>>
    /\ Last(jinja_node_stack) # TopFrame.self

\* C15 (as claimed): examining an End statement in a frame whose node is
\* not on top of the stack ends the pass with a JinjaLinterError.
C15_EndNotOnTopIsFatal ==
    [][EndNotOnTop => outcome'.kind = "JinjaLinterError"]_vars

\* C15: an End statement that closes the block on top of the stack,
\* examined in a frame whose node is not that top node, is handed back: the
\* frame returns the index of the End line to its caller, and the stack,
\* the diagnostics and the verifications stay as they were; nothing is
\* raised.
C15_EndNotOnTopIsHandedBack ==
    [][(EndNotOnTop /\ CurNode.tag = EndOf(Last(jinja_node_stack).tag)) =>
         (/\ Len(frames') = Len(frames) - 1
          /\ IF frames' = <<>>
             THEN outcome' = Returned(TopFrame.line_no)
             ELSE /\ outcome'.kind = "running"
                  /\ Last(frames').line_no = TopFrame.line_no
          /\ jinja_node_stack' = jinja_node_stack
          /\ result' = result
          /\ checks' = checks)]_vars

C15_Witness ==
    /\ Running
    /\ trace # <<>>
    /\ Last(trace).ev = "return"
    /\ Last(trace).value # None
    /\ Last(trace).value < Len(lines)
    /\ ThisTags[Last(trace).value + 1] \in END_TAGS
    /\ TopFrame.line_no = Last(trace).value
    /\ TopFrame.pc = "middle"

\* the line of the Begin statement of the block End statement n closes
BeginOf(tags, n) == Last(DocOpen(tags, n - 1)).line

\* C16: when a pass over a correctly nested input has returned, every End
\* statement was verified exactly once, at the expected indent of its Begin
\* statement, and the Begin statement's frame returned the index after the
\* End line.
C16_EndVerifiedOnce ==
    (outcome.kind = "returned" /\ WellNested(ThisTags))
        => \A n \in DOMAIN lines :
               ThisTags[n] \in END_TAGS =>
                   /\ Cardinality(ChecksAt(n)) = 1
                   /\ \A i \in ChecksAt(n) :
                          checks[i].expected = Col(DocDepth(ThisTags, n))
                   /\ \E k \in DOMAIN trace :
                          trace[k] = Event("return", BeginOf(ThisTags, n) - 1, n)

\* C17: when a pass over a correctly nested input has returned, every
\* Middle statement was verified exactly once, at the expected indent of its
\* block's Begin statement, and a body statement right after it at that
\* indent plus INDENT_SHIFT.
C17_MiddleVerifiedOnce ==
    (outcome.kind = "returned" /\ WellNested(ThisTags))
        => \A n \in DOMAIN lines :
               ThisTags[n] \in MIDDLE_TAGS =>
                   /\ Cardinality(ChecksAt(n)) = 1
                   /\ \A i \in ChecksAt(n) :
                          checks[i].expected = Col(DocDepth(ThisTags, n))
                   /\ (n < Len(lines) /\ ThisTags[n + 1] \notin MIDDLE_TAGS \cup END_TAGS)
                          => \E i \in ChecksAt(n + 1) :
                                 checks[i].expected
                                     = Col(DocDepth(ThisTags, n)) + INDENT_SHIFT

\* C18: examining an End or a Middle statement while the stack is empty
\* ends the pass with a JinjaLinterError.
C18_EmptyStackIsLinterError ==
    [][((AtEndTag \/ AtMiddleTag) /\ jinja_node_stack = <<>>)
          => outcome'.kind = "JinjaLinterError"]_vars

\* the tags node.py knows: Begin, End, Middle and Intermediate
KnownTags ==
    {"for", "if", "block", "endfor", "endif", "endblock", "elif", "else",
     "set", "include"}

\* C19: examining a statement whose tag is none of the known ones ends the
\* pass with the JinjaLinterError "Unsupported tag" for that statement,
\* whatever blocks are open: every frame is left, the stack and the
\* diagnostics stay as they were and no later statement has been verified.
C19_UnknownTagIsFatal ==
    [][(AtLine /\ lines[TopFrame.line_no + 1].tag \notin KnownTags) =>
         (/\ outcome'.kind = "JinjaLinterError"
          /\ outcome'.msg = "Unsupported tag"
          /\ outcome'.line = TopFrame.line_no + 1
          /\ frames' = <<>>
          /\ jinja_node_stack' = jinja_node_stack
          /\ result' = result
          /\ \A i \in DOMAIN checks' : checks'[i].line <= TopFrame.line_no)]_vars

C19_Witness ==
    /\ outcome.kind = "JinjaLinterError"
    /\ outcome.msg = "Unsupported tag"
    /\ lines[outcome.line].tag = "foo"
    /\ outcome.line = 2
    /\ jinja_node_stack # <<>>
    /\ Last(jinja_node_stack).pass = passNo

\* C20: examining an Intermediate statement leaves the stack and the frames
\* as they are but for the line index of the innermost frame, which grows
\* by one; the statement is verified once, at the indent level of that
\* frame, and the pass goes on.
C20_IntermediateTagStep ==
    [][(AtLine /\ lines[TopFrame.line_no + 1].tag \in {"set", "include"}) =>
         (/\ jinja_node_stack' = jinja_node_stack
          /\ frames' = [frames EXCEPT ![Len(frames)].line_no = TopFrame.line_no + 1]
          /\ outcome' = outcome
          /\ checks' = Append(checks,
                 [line |-> TopFrame.line_no + 1,
                  tag |-> lines[TopFrame.line_no + 1].tag,
                  expected |-> TopFrame.indent_level + DEFAULT_WHITESPACES])
          /\ IF lines[TopFrame.line_no + 1].begin
                    = TopFrame.indent_level + DEFAULT_WHITESPACES
             THEN result' = result
             ELSE /\ Len(result') = Len(result) + 1
                  /\ Last(result').line = TopFrame.line_no + 1
                  /\ Last(result').expected
                         = TopFrame.indent_level + DEFAULT_WHITESPACES)]_vars

C20_Witness ==
    /\ Running
    /\ checks # <<>>
    /\ Last(checks).tag = "set"
    /\ Last(checks).expected = Col(1)
    /\ result # <<>>
    /\ Last(result).line = Last(checks).line
    /\ jinja_node_stack # <<>>
    /\ TopFrame.line_no = Last(checks).line

\* C21: every verification of this pass used, as the expected indent of its
\* statement, INDENT_SHIFT times the number of blocks open around the
\* statement in the document (the column compared is DEFAULT_WHITESPACES
\* further), in every pass and at whatever columns the statements stand.
C21_ExpectedIndentIsDepth ==
    \A i \in DOMAIN checks :
        checks[i].expected - DEFAULT_WHITESPACES
            = INDENT_SHIFT * DocDepth(ThisTags, checks[i].line)

C21_Witness ==
    /\ passNo >= 2
    /\ jinja_node_stack # <<>>
    /\ jinja_node_stack[1].pass < passNo
    /\ Len(checks) >= 3
    /\ \E i \in DOMAIN checks :
           /\ checks[i].expected = DEFAULT_WHITESPACES + INDENT_SHIFT
           /\ checks[i].tag \in MIDDLE_TAGS \cup END_TAGS \cup {"set"}
    /\ \E n \in DOMAIN lines :
           /\ n < Last(checks).line
           /\ ~WellIndentedAt(lines, n)

\* C22: when a pass has ended with a JinjaLinterError for some line, result
\* holds a diagnostic for every statement before that line that does not
\* stand at its expected column, the Begin statements of the blocks still
\* open included.
C22_DiagnosticsBeforeFatalError ==
    outcome.kind = "JinjaLinterError"
        => \A n \in DOMAIN lines :
               (n < outcome.line /\ ~WellIndentedAt(lines, n))
                   => \E i \in DOMAIN result : result[i].line = n

====
